---- MODULE Spec2Model ----
(***************************************************************************)
(* Analytics / filter engine of the payment analytics dashboard:           *)
(*   - classifyDecline, filterTransactions, getAuthorizationRate,          *)
(*     getLostRevenue, getDeclineImpact        (lib/analytics.ts)          *)
(*   - the zustand filter store useFilterStore (store/filterStore.ts)      *)
(* JavaScript numbers are IEEE-754 binary floating point with              *)
(* round-to-nearest-even.  The model keeps that arithmetic (FAdd, FMul,    *)
(* FDiv) on a significand of Precision bits instead of 53.                 *)
(***************************************************************************)
EXTENDS Integers, Sequences, FiniteSets, TLC

\* ------------------------------------------------------------------------
\* Bounds of the model
\* ------------------------------------------------------------------------
\* Bits of the significand of a number (binary64 has 53).
Precision == 5
\* Longest transaction list handed to an aggregation function.
MaxLen == 3
\* Longest list of sample records handed to filterTransactions on its own.
MaxFilterLen == 3
\* Longest snapshot loaded into the store.
MaxStoreLen == 2
\* Most criteria selected in the store before one more operation is called.
MaxSelected == 2

\* ------------------------------------------------------------------------
\* Numbers: non-negative binary floating point, value m * 2^e, m odd or 0
\* ------------------------------------------------------------------------
RECURSIVE Pow2(_)
Pow2(k) == IF k <= 0 THEN 1 ELSE 2 * Pow2(k - 1)

RECURSIVE BitLen(_)
BitLen(n) == IF n <= 0 THEN 0 ELSE 1 + BitLen(n \div 2)

NaN == [m |-> -1, e |-> 0]
Infinity == [m |-> -2, e |-> 0]
Zero == [m |-> 0, e |-> 0]

IsFinite(x) == x.m >= 0

RECURSIVE Canon(_, _)
Canon(m, e) ==
  IF m = 0 THEN Zero
  ELSE IF m % 2 = 0 THEN Canon(m \div 2, e + 1)
  ELSE [m |-> m, e |-> e]

\* Round the exact value m * 2^e to Precision significant bits, ties to even.
RoundSig(m, e) ==
  LET b == BitLen(m) IN
  IF b <= Precision THEN Canon(m, e)
  ELSE LET s    == b - Precision
           q    == m \div Pow2(s)
           r    == m % Pow2(s)
           half == Pow2(s - 1)
           up   == r > half \/ (r = half /\ q % 2 = 1)
       IN Canon(IF up THEN q + 1 ELSE q, e + s)

\* An integer as a number.
Num(n) == RoundSig(n, 0)

MinExp(a, b) == IF a.e <= b.e THEN a.e ELSE b.e

\* a + b
FAdd(a, b) ==
  IF ~IsFinite(a) \/ ~IsFinite(b)
  THEN (IF a = NaN \/ b = NaN THEN NaN ELSE Infinity)
  ELSE LET e == MinExp(a, b)
       IN RoundSig(a.m * Pow2(a.e - e) + b.m * Pow2(b.e - e), e)

\* a * b
FMul(a, b) ==
  IF ~IsFinite(a) \/ ~IsFinite(b)
  THEN (IF a = NaN \/ b = NaN \/ a = Zero \/ b = Zero THEN NaN ELSE Infinity)
  ELSE RoundSig(a.m * b.m, a.e + b.e)

\* a / b; 0/0 is NaN and x/0 is Infinity, as in JavaScript.
FDiv(a, b) ==
  IF ~IsFinite(a) \/ ~IsFinite(b) THEN NaN
  ELSE IF b.m = 0 THEN (IF a.m = 0 THEN NaN ELSE Infinity)
  ELSE LET s      == Precision + 2 + BitLen(b.m)
           n      == a.m * Pow2(s)
           q      == n \div b.m
           sticky == IF n % b.m = 0 THEN 0 ELSE 1
       IN RoundSig(2 * q + sticky, a.e - b.e - s - 1)

\* a <= b on finite numbers
FLe(a, b) ==
  LET e == MinExp(a, b) IN a.m * Pow2(a.e - e) <= b.m * Pow2(b.e - e)

\* ------------------------------------------------------------------------
\* Domain types (lib/types.ts)
\* ------------------------------------------------------------------------
\* decline_code: DeclineCode | null
NULL == "null"
\* DateRange.start, DateRange.end: Date | null; a Date is a count of hours >= 0
NullDate == -1

Country == {"Mexico", "Colombia", "Brazil"}
PaymentMethod == {"credit_card", "debit_card", "pse", "pix", "boleto"}
Processor == {"PagosRapid", "AcquireLocal", "BrasilPay"}
TransactionStatus == {"approved", "declined"}
DeclineCode ==
  {"insufficient_funds", "card_expired", "suspected_fraud", "do_not_honor",
   "issuer_unavailable", "invalid_card_number", "transaction_not_permitted",
   "processing_error", "timeout", "lost_stolen_card"}
DeclineType == {"soft", "hard"}

\* ------------------------------------------------------------------------
\* Values the model draws inputs from
\* ------------------------------------------------------------------------
SomeCountries == {"Mexico", "Brazil"}
SomePaymentMethods == {"credit_card", "pix"}
SomeProcessors == {"PagosRapid", "BrasilPay"}
\* one soft and one hard code
SomeDeclineCodes == {"insufficient_funds", "suspected_fraud"}
\* a code of neither list of classifyDecline
UnknownCode == "unknown_code"
\* timestamps and date bounds, in hours since 2024-01-01T00:00Z
Timestamps == {1, 2, 3}
DateBounds == {NullDate, 2}
\* amounts: a small one and the largest integer of Precision bits
Amounts == {Num(2), Num(Pow2(Precision) - 1)}

\* status and decline_code as the Transaction type allows them, the two
\* combinations the loader is meant to exclude included
StatusAndCode ==
  {<<"approved", NULL>>, <<"declined", NULL>>, <<"approved", "insufficient_funds">>}
    \cup {<<"declined", c>> : c \in SomeDeclineCodes}

CURRENCIES(country) ==
  CASE country = "Mexico" -> "MXN"
    [] country = "Colombia" -> "COP"
    [] country = "Brazil" -> "BRL"

Transaction(ts, co, pm, pr, sc, am) ==
  [id |-> 0, amount |-> am, currency |-> CURRENCIES(co), country |-> co,
   payment_method |-> pm, processor |-> pr, status |-> sc[1],
   decline_code |-> sc[2], timestamp |-> ts]

\* the i-th record of a loaded list has the i-th identifier (ids are unique)
WithIds(s) == [i \in 1..Len(s) |-> [s[i] EXCEPT !.id = i]]

ListsOf(pool, n) == UNION {{WithIds(s) : s \in [1..k -> pool]} : k \in 0..n}

\* ------------------------------------------------------------------------
\* lib/analytics.ts
\* ------------------------------------------------------------------------
includes(list, v) == \E i \in 1..Len(list) : list[i] = v

softDeclines ==
  <<"insufficient_funds", "issuer_unavailable", "processing_error", "timeout">>

hardDeclines ==
  <<"card_expired", "suspected_fraud", "do_not_honor", "invalid_card_number",
    "transaction_not_permitted", "lost_stolen_card">>

\* a code of neither list is classified as recoverable
classifyDeclineDefaultSoft(code) ==
  IF includes(softDeclines, code) THEN "soft"
  ELSE IF includes(hardDeclines, code) THEN "hard"
  ELSE "soft"

classifyDecline(code) ==
  IF includes(softDeclines, code) THEN "soft"
  ELSE IF includes(hardDeclines, code) THEN "hard"
  ELSE "hard"

\* filters.x: a Partial<TransactionFilters> may lack any of its fields
Has(f, k) == k \in DOMAIN f

\* filters.x && filters.x.length > 0
Active(f, k) == Has(f, k) /\ Len(f[k]) > 0

\* the end bound is exclusive
PassesDateRangeExclusiveEnd(t, f) ==
  Has(f, "dateRange") =>
    /\ ~(f.dateRange.start # NullDate /\ t.timestamp < f.dateRange.start)
    /\ ~(f.dateRange.end # NullDate /\ t.timestamp >= f.dateRange.end)

PassesDateRange(t, f) ==
  Has(f, "dateRange") =>
    /\ ~(f.dateRange.start # NullDate /\ t.timestamp < f.dateRange.start)
    /\ ~(f.dateRange.end # NullDate /\ t.timestamp > f.dateRange.end)

\* an empty list of countries matches nothing
PassesCountryEmptyMatchesNothing(t, f) ==
  Has(f, "countries") => includes(f.countries, t.country)

PassesCountry(t, f) ==
  Active(f, "countries") => includes(f.countries, t.country)

PassesPaymentMethod(t, f) ==
  Active(f, "paymentMethods") => includes(f.paymentMethods, t.payment_method)

\* the processor check is skipped
PassesProcessorSkipped(t, f) == TRUE

PassesProcessor(t, f) ==
  Active(f, "processors") => includes(f.processors, t.processor)

PassesDeclineCode(t, f) ==
  Active(f, "declineCodes") =>
    IF t.status = "declined" /\ t.decline_code # NULL
    THEN includes(f.declineCodes, t.decline_code)
    ELSE FALSE

\* the decline type check lets approved transactions through
PassesDeclineTypeKeepsApproved(t, f) ==
  Active(f, "declineTypes") =>
    IF t.status = "declined" /\ t.decline_code # NULL
    THEN includes(f.declineTypes, classifyDecline(t.decline_code))
    ELSE TRUE

PassesDeclineType(t, f) ==
  Active(f, "declineTypes") =>
    IF t.status = "declined" /\ t.decline_code # NULL
    THEN includes(f.declineTypes, classifyDecline(t.decline_code))
    ELSE FALSE

\* the callback of transactions.filter(...)
Keeps(t, f) ==
  /\ PassesDateRange(t, f)
  /\ PassesCountry(t, f)
  /\ PassesPaymentMethod(t, f)
  /\ PassesProcessor(t, f)
  /\ PassesDeclineCode(t, f)
  /\ PassesDeclineType(t, f)

\* the kept transactions come newest first
filterTransactionsReversed(transactions, f) ==
  LET keep(t) == Keeps(t, f)
      kept    == SelectSeq(transactions, keep)
  IN [i \in 1..Len(kept) |-> kept[Len(kept) + 1 - i]]

filterTransactions(transactions, f) ==
  LET keep(t) == Keeps(t, f) IN SelectSeq(transactions, keep)

Front(s) == SubSeq(s, 1, Len(s) - 1)
Last(s) == s[Len(s)]

\* txns.reduce((sum, t) => sum + t.amount, 0)
RECURSIVE SumAmount(_)
SumAmount(txns) ==
  IF Len(txns) = 0 THEN Zero
  ELSE FAdd(SumAmount(Front(txns)), Last(txns).amount)

IsApproved(t) == t.status = "approved"
IsDeclined(t) == t.status = "declined"

\* the rate without its guard against an empty list
RateOfUnguarded(approved, total) ==
  FMul(FDiv(Num(approved), Num(total)), Num(100))

\* total > 0 ? (approved / total) * 100 : 0
RateOf(approved, total) ==
  IF total > 0 THEN FMul(FDiv(Num(approved), Num(total)), Num(100)) ELSE Zero

\* lostRevenue sums every amount, approved ones included
getAuthorizationRateLostIsAll(transactions) ==
  LET total    == Len(transactions)
      approved == Len(SelectSeq(transactions, IsApproved))
  IN [total |-> total, approved |-> approved, declined |-> total - approved,
      authorizationRate |-> IF total > 0
                              THEN FMul(FDiv(Num(approved), Num(total)), Num(100))
                              ELSE Zero,
      totalRevenue |-> SumAmount(SelectSeq(transactions, IsApproved)),
      lostRevenue |-> SumAmount(transactions)]

getAuthorizationRate(transactions) ==
  LET total    == Len(transactions)
      approved == Len(SelectSeq(transactions, IsApproved))
      declined == total - approved
      totalRevenue == SumAmount(SelectSeq(transactions, IsApproved))
      lostRevenue  == SumAmount(SelectSeq(transactions, IsDeclined))
  IN [total |-> total, approved |-> approved, declined |-> declined,
      authorizationRate |-> RateOf(approved, total),
      totalRevenue |-> totalRevenue, lostRevenue |-> lostRevenue]

\* lost revenue over the declined transactions that carry a decline code
getLostRevenueCodedOnly(transactions) ==
  LET coded(t) == t.status = "declined" /\ t.decline_code # NULL
  IN SumAmount(SelectSeq(transactions, coded))

getLostRevenue(transactions) ==
  SumAmount(SelectSeq(transactions, IsDeclined))

\* the keys of the object built by reduce, in insertion order
RECURSIVE GroupKeys(_)
GroupKeys(declined) ==
  IF Len(declined) = 0 THEN <<>>
  ELSE LET keys == GroupKeys(Front(declined))
           code == Last(declined).decline_code
       IN IF includes(keys, code) THEN keys ELSE Append(keys, code)

\* acc[code]: the transactions pushed under one key, in input order
GroupOf(declined, code) ==
  LET same(t) == t.decline_code = code IN SelectSeq(declined, same)

\* lostRevenue is the amount of the first transaction of the group only
AnalysisRowFirstAmount(code, txns, nDeclined) ==
  LET count       == Len(txns)
      lostRevenue == txns[1].amount
  IN [code |-> code, type |-> classifyDecline(code), count |-> count,
      percentage |-> FMul(FDiv(Num(count), Num(nDeclined)), Num(100)),
      lostRevenue |-> lostRevenue,
      averageAmount |-> FDiv(lostRevenue, Num(count))]

\* one element of analysis, before the cumulative percentage
AnalysisRow(code, txns, nDeclined) ==
  LET count       == Len(txns)
      lostRevenue == SumAmount(txns)
  IN [code |-> code, type |-> classifyDecline(code), count |-> count,
      percentage |-> FMul(FDiv(Num(count), Num(nDeclined)), Num(100)),
      lostRevenue |-> lostRevenue,
      averageAmount |-> FDiv(lostRevenue, Num(count))]

\* an unstable sort: the index x goes before the indexes of equal key
RECURSIVE InsertSortedBeforeEqual(_, _, _)
InsertSortedBeforeEqual(sorted, x, keys) ==
  IF Len(sorted) = 0 THEN <<x>>
  ELSE IF keys[Last(sorted)] - keys[x] <= 0
       THEN Append(InsertSortedBeforeEqual(Front(sorted), x, keys), Last(sorted))
       ELSE Append(sorted, x)

\* Array.prototype.sort((a, b) => key(b) - key(a)) is stable: the index x goes
\* behind every index whose key is not smaller.  The result lists the indexes
\* of keys in sorted order.
RECURSIVE InsertSorted(_, _, _)
InsertSorted(sorted, x, keys) ==
  IF Len(sorted) = 0 THEN <<x>>
  ELSE IF keys[Last(sorted)] - keys[x] < 0
       THEN Append(InsertSorted(Front(sorted), x, keys), Last(sorted))
       ELSE Append(sorted, x)

RECURSIVE SortedIndexes(_, _)
SortedIndexes(n, keys) ==
  IF n = 0 THEN <<>>
  ELSE InsertSorted(SortedIndexes(n - 1, keys), n, keys)

\* the rows are left in insertion order
SortDescendingOmitted(rows, keys) == rows

\* rows.sort((a, b) => keys(b) - keys(a))
SortDescending(rows, keys) ==
  LET order == SortedIndexes(Len(rows), keys)
  IN [i \in 1..Len(rows) |-> rows[order[i]]]

\* every row carries its own percentage as cumulative percentage
WithCumulativeNotAccumulated(analysis) ==
  [i \in 1..Len(analysis) |->
     [code |-> analysis[i].code, type |-> analysis[i].type,
      count |-> analysis[i].count, percentage |-> analysis[i].percentage,
      lostRevenue |-> analysis[i].lostRevenue,
      averageAmount |-> analysis[i].averageAmount,
      cumulativePercentage |-> analysis[i].percentage]]

\* let cumulative = 0; analysis.map(item => { cumulative += item.percentage; ... })
RECURSIVE WithCumulative(_)
WithCumulative(analysis) ==
  IF Len(analysis) = 0 THEN <<>>
  ELSE LET done == WithCumulative(Front(analysis))
           prev == IF Len(done) = 0 THEN Zero ELSE Last(done).cumulativePercentage
           item == Last(analysis)
       IN Append(done,
            [code |-> item.code, type |-> item.type, count |-> item.count,
             percentage |-> item.percentage, lostRevenue |-> item.lostRevenue,
             averageAmount |-> item.averageAmount,
             cumulativePercentage |-> FAdd(prev, item.percentage)])

HasDeclineCode(t) == t.status = "declined" /\ t.decline_code # NULL

getDeclineImpact(transactions) ==
  LET declined == SelectSeq(transactions, HasDeclineCode) IN
  IF Len(declined) = 0 THEN <<>>
  ELSE LET keys     == GroupKeys(declined)
           analysis == [i \in 1..Len(keys) |->
                          AnalysisRow(keys[i], GroupOf(declined, keys[i]), Len(declined))]
       IN WithCumulative(
            SortDescending(analysis, [i \in 1..Len(analysis) |-> analysis[i].count]))

\* type GroupByDimension
GroupByDimension == {"country", "payment_method", "processor", "decline_code"}

\* const keyMap: Record<GroupByDimension, keyof Transaction>
keyMap ==
  [country |-> "country", payment_method |-> "payment_method",
   processor |-> "processor", decline_code |-> "decline_code"]

\* a null value adds a key as any other value does
RECURSIVE DimensionKeysWithNull(_, _)
DimensionKeysWithNull(transactions, key) ==
  IF Len(transactions) = 0 THEN <<>>
  ELSE LET keys  == DimensionKeysWithNull(Front(transactions), key)
           value == Last(transactions)[key]
       IN IF includes(keys, value) THEN keys ELSE Append(keys, value)

\* the keys of grouped, in insertion order; a null value adds no key
RECURSIVE DimensionKeys(_, _)
DimensionKeys(transactions, key) ==
  IF Len(transactions) = 0 THEN <<>>
  ELSE LET keys  == DimensionKeys(Front(transactions), key)
           value == Last(transactions)[key]
       IN IF value = NULL \/ includes(keys, value) THEN keys ELSE Append(keys, value)

\* only the first transaction of a value is pushed
DimensionGroupFirstOnly(transactions, key, value) ==
  LET same(t) == t[key] = value
  IN SubSeq(SelectSeq(transactions, same), 1, 1)

\* grouped[value]: the transactions pushed under one value, in input order
DimensionGroup(transactions, key, value) ==
  LET same(t) == t[key] = value IN SelectSeq(transactions, same)

\* totalAmount sums the amounts of the whole group
DimensionRowAmountOfAll(dimensionValue, txns) ==
  LET approved == Len(SelectSeq(txns, IsApproved))
      declined == Len(SelectSeq(txns, IsDeclined))
      total    == Len(txns)
  IN [dimension |-> dimensionValue, approved |-> approved, declined |-> declined,
      total |-> total, authorizationRate |-> RateOf(approved, total),
      totalAmount |-> SumAmount(txns)]

\* one DimensionAggregate
DimensionRow(dimensionValue, txns) ==
  LET approved    == Len(SelectSeq(txns, IsApproved))
      declined    == Len(SelectSeq(txns, IsDeclined))
      total       == Len(txns)
      totalAmount == SumAmount(SelectSeq(txns, IsApproved))
  IN [dimension |-> dimensionValue, approved |-> approved, declined |-> declined,
      total |-> total, authorizationRate |-> RateOf(approved, total),
      totalAmount |-> totalAmount]

\* the aggregates are left in insertion order
groupByDimensionUnsorted(transactions, dimension) ==
  LET key  == keyMap[dimension]
      keys == DimensionKeys(transactions, key)
  IN [i \in 1..Len(keys) |->
        DimensionRow(keys[i], DimensionGroup(transactions, key, keys[i]))]

groupByDimension(transactions, dimension) ==
  LET key  == keyMap[dimension]
      keys == DimensionKeys(transactions, key)
      rows == [i \in 1..Len(keys) |->
                 DimensionRow(keys[i], DimensionGroup(transactions, key, keys[i]))]
  IN SortDescending(rows, [i \in 1..Len(rows) |-> rows[i].total])

\* type TimeGranularity
TimeGranularity == {"day", "week", "month"}

\* a Date is a count of hours, hour 0 being 2024-01-01T00:00Z, a Monday; the
\* local clock of the runtime is utcOffset hours ahead of UTC
LocalDay(date, utcOffset) == (date + utcOffset) \div 24

IsLeapYear(y) == y % 4 = 0 /\ (y % 100 # 0 \/ y % 400 = 0)

DaysInMonth(y, m) ==
  IF m = 2 THEN (IF IsLeapYear(y) THEN 29 ELSE 28)
  ELSE IF m \in {4, 6, 9, 11} THEN 30 ELSE 31

\* the calendar date n days after the first day of month m of year y
RECURSIVE CivilFrom(_, _, _)
CivilFrom(y, m, n) ==
  IF n < DaysInMonth(y, m) THEN [year |-> y, month |-> m, day |-> n + 1]
  ELSE IF m = 12 THEN CivilFrom(y + 1, 1, n - DaysInMonth(y, m))
  ELSE CivilFrom(y, m + 1, n - DaysInMonth(y, m))

\* format(date, 'yyyy-MM-dd') of local day number day
format(day) == CivilFrom(2024, 1, day)

\* startOfWeek(date): the Sunday on or before the local day
startOfWeek(day) == day - ((day + 1) % 7)

\* startOfMonth(date): the first local day of the month
startOfMonth(day) == day - (format(day).day - 1)

\* const formatDate = (date: Date): string
formatDate(date, granularity, utcOffset) ==
  LET day == LocalDay(date, utcOffset) IN
  IF granularity = "day" THEN format(day)
  ELSE IF granularity = "week" THEN format(startOfWeek(day))
  ELSE format(startOfMonth(day))

\* the days from 2024-01-01 to the first day of month m of year y
RECURSIVE DaysBefore(_, _)
DaysBefore(y, m) ==
  IF y = 2024 /\ m = 1 THEN 0
  ELSE IF m = 1 THEN DaysBefore(y - 1, 12) + DaysInMonth(y - 1, 12)
  ELSE DaysBefore(y, m - 1) + DaysInMonth(y, m - 1)

\* new Date(dateStr).getTime(): a date-only string is midnight UTC
getTime(dateStr) == (DaysBefore(dateStr.year, dateStr.month) + dateStr.day - 1) * 24

\* the keys of grouped, in insertion order
RECURSIVE TimeKeys(_, _, _)
TimeKeys(transactions, granularity, utcOffset) ==
  IF Len(transactions) = 0 THEN <<>>
  ELSE LET keys == TimeKeys(Front(transactions), granularity, utcOffset)
           key  == formatDate(Last(transactions).timestamp, granularity, utcOffset)
       IN IF includes(keys, key) THEN keys ELSE Append(keys, key)

\* grouped[key]: the transactions pushed under one key, in input order
TimeGroup(transactions, granularity, utcOffset, key) ==
  LET same(t) == formatDate(t.timestamp, granularity, utcOffset) = key
  IN SelectSeq(transactions, same)

\* total counts the approved transactions only
TimeRowTotalOfApproved(dateStr, txns) ==
  LET approved == Len(SelectSeq(txns, IsApproved))
      declined == Len(SelectSeq(txns, IsDeclined))
  IN [date |-> dateStr, timestamp |-> getTime(dateStr), approved |-> approved,
      declined |-> declined, total |-> approved,
      authorizationRate |-> RateOf(approved, approved)]

\* one TimeSeriesDataPoint
TimeRow(dateStr, txns) ==
  LET approved == Len(SelectSeq(txns, IsApproved))
      declined == Len(SelectSeq(txns, IsDeclined))
      total    == Len(txns)
  IN [date |-> dateStr, timestamp |-> getTime(dateStr), approved |-> approved,
      declined |-> declined, total |-> total,
      authorizationRate |-> RateOf(approved, total)]

\* rows.sort((a, b) => keys(a) - keys(b)), the descending sort of the negated keys
SortAscending(rows, keys) ==
  SortDescending(rows, [i \in 1..Len(rows) |-> 0 - keys[i]])

\* the data points are left in insertion order
groupByTimeUnsorted(transactions, granularity, utcOffset) ==
  LET keys == TimeKeys(transactions, granularity, utcOffset)
  IN [i \in 1..Len(keys) |->
        TimeRow(keys[i], TimeGroup(transactions, granularity, utcOffset, keys[i]))]

groupByTime(transactions, granularity, utcOffset) ==
  LET keys == TimeKeys(transactions, granularity, utcOffset)
      rows == [i \in 1..Len(keys) |->
                 TimeRow(keys[i], TimeGroup(transactions, granularity, utcOffset, keys[i]))]
  IN SortAscending(rows, [i \in 1..Len(rows) |-> rows[i].timestamp])

\* ------------------------------------------------------------------------
\* components/summary: TotalLostRevenueCard, TopDeclineCodeCard
\* ------------------------------------------------------------------------
\* the keys of currencyCounts, in insertion order
RECURSIVE CurrencyKeys(_)
CurrencyKeys(declined) ==
  IF Len(declined) = 0 THEN <<>>
  ELSE LET keys     == CurrencyKeys(Front(declined))
           currency == Last(declined).currency
       IN IF includes(keys, currency) THEN keys ELSE Append(keys, currency)

\* the most common currency among the declined transactions, 'MXN' without any
primaryCurrency(transactions) ==
  LET declined == SelectSeq(transactions, IsDeclined) IN
  IF Len(declined) = 0 THEN "MXN"
  ELSE LET keys    == CurrencyKeys(declined)
           count(c) == LET same(t) == t.currency = c IN Len(SelectSeq(declined, same))
           entries == [i \in 1..Len(keys) |-> <<keys[i], count(keys[i])>>]
       IN SortDescending(entries, [i \in 1..Len(entries) |-> entries[i][2]])[1][1]

\* the amount and the currency the card hands to formatCurrency
TotalLostRevenueCard(transactions) ==
  [lostRevenue |-> getLostRevenue(transactions),
   primaryCurrency |-> primaryCurrency(transactions)]

\* lib/formatters.ts: the human-readable text of a decline code
getDeclineDescription(code) ==
  CASE code = "insufficient_funds" -> "Insufficient Funds"
    [] code = "card_expired" -> "Card Expired"
    [] code = "suspected_fraud" -> "Suspected Fraud"
    [] code = "do_not_honor" -> "Do Not Honor"
    [] code = "invalid_card_number" -> "Invalid Card Number"
    [] code = "issuer_unavailable" -> "Issuer Unavailable"
    [] code = "processing_error" -> "Processing Error"
    [] code = "timeout" -> "Timeout"
    [] code = "transaction_not_permitted" -> "Transaction Not Permitted"
    [] code = "lost_stolen_card" -> "Lost Stolen Card"
    [] OTHER -> code

\* the card takes the last row of the analysis
TopDeclineCodeCardLastRow(transactions) ==
  LET analysis   == getDeclineImpact(transactions)
      topDecline == IF Len(analysis) > 0 THEN <<analysis[Len(analysis)]>> ELSE <<>>
  IN [topDecline |-> topDecline,
      declineCodeDisplay |-> IF Len(topDecline) > 0
                               THEN getDeclineDescription(topDecline[1].code)
                               ELSE "No Declines"]

\* topDecline is analysis[0] or null, kept as a list of one row or of none
TopDeclineCodeCard(transactions) ==
  LET analysis   == getDeclineImpact(transactions)
      topDecline == IF Len(analysis) > 0 THEN <<analysis[1]>> ELSE <<>>
  IN [topDecline |-> topDecline,
      declineCodeDisplay |-> IF Len(topDecline) > 0
                               THEN getDeclineDescription(topDecline[1].code)
                               ELSE "No Declines"]

\* ------------------------------------------------------------------------
\* components/tables: DeclineAnalysisTable
\* ------------------------------------------------------------------------
\* type SortColumn, type SortDirection
SortColumn == {"code", "count", "amount", "percentage"}
SortDirection == {"asc", "desc"}

\* the decline codes in the order of localeCompare
codesByLocale ==
  <<"card_expired", "do_not_honor", "insufficient_funds", "invalid_card_number",
    "issuer_unavailable", "lost_stolen_card", "processing_error", "suspected_fraud",
    "timeout", "transaction_not_permitted">>

\* a.localeCompare(b) has the sign of localeRank(a) - localeRank(b)
localeRank(code) == CHOOSE i \in 1..Len(codesByLocale) : codesByLocale[i] = code

\* a - b of two numbers has the sign of numberRank(values, a) -
\* numberRank(values, b): the count of the values below
numberRank(values, i) ==
  Cardinality({j \in 1..Len(values) : FLe(values[j], values[i]) /\ values[j] # values[i]})

\* compareA of every row for the sort column, as integers of the same order
compareKeys(analysis, sortColumn) ==
  LET amounts     == [i \in 1..Len(analysis) |-> analysis[i].lostRevenue]
      percentages == [i \in 1..Len(analysis) |-> analysis[i].percentage]
  IN [i \in 1..Len(analysis) |->
        CASE sortColumn = "code" -> localeRank(analysis[i].code)
          [] sortColumn = "count" -> analysis[i].count
          [] sortColumn = "amount" -> numberRank(amounts, i)
          [] sortColumn = "percentage" -> numberRank(percentages, i)]

\* [...analysis].sort(comparator of sortColumn and sortDirection)
sortedDeclines(transactions, sortColumn, sortDirection) ==
  LET analysis == getDeclineImpact(transactions)
      keys     == compareKeys(analysis, sortColumn)
  IN IF sortDirection = "asc" THEN SortAscending(analysis, keys)
     ELSE SortDescending(analysis, keys)

\* the indicator of a column header: "none" for the two-headed arrow, "asc"
\* for the arrow up and "desc" for the arrow down
renderSortIcon(column, sortColumn, sortDirection) ==
  IF sortColumn # column THEN "none"
  ELSE IF sortDirection = "asc" THEN "asc" ELSE "desc"

\* what the table shows: its rows, the first of them highlighted, and the
\* indicator of every sortable column
DeclineAnalysisTable(transactions, sortColumn, sortDirection) ==
  [declines |-> sortedDeclines(transactions, sortColumn, sortDirection),
   sortIcon |-> [column \in SortColumn |->
                   renderSortIcon(column, sortColumn, sortDirection)]]

\* ------------------------------------------------------------------------
\* State
\* ------------------------------------------------------------------------
VARIABLES
  allTransactions,       \* FilterState.allTransactions
  filters,               \* FilterState.filters
  filteredTransactions,  \* FilterState.filteredTransactions
  sameArray,             \* filteredTransactions === allTransactions
  txs,                   \* the list a caller hands to a function of analytics.ts
  fn,                    \* the function it called last
  arg,                   \* the second argument of that call
  ret                    \* what the call returned

vars == <<allTransactions, filters, filteredTransactions, sameArray, txs, fn, arg, ret>>
store == <<allTransactions, filters, filteredTransactions, sameArray>>
caller == <<txs, fn, arg, ret>>

\* ------------------------------------------------------------------------
\* store/filterStore.ts
\* ------------------------------------------------------------------------
initialFilters ==
  [dateRange |-> [start |-> NullDate, end |-> NullDate], countries |-> <<>>,
   paymentMethods |-> <<>>, processors |-> <<>>, declineCodes |-> <<>>,
   declineTypes |-> <<>>]

\* set(state => ({filters: newFilters, filteredTransactions: filterTransactions(...)}))
setDateRange(range) ==
  LET newFilters == [filters EXCEPT !.dateRange = range] IN
  /\ filters' = newFilters
  /\ filteredTransactions' = filterTransactions(allTransactions, newFilters)
  /\ sameArray' = FALSE
  /\ UNCHANGED <<allTransactions, caller>>

\* the new filters are built from initialFilters, not from state.filters
setCountriesFromInitial(countries) ==
  LET newFilters == [initialFilters EXCEPT !.countries = countries] IN
  /\ filters' = newFilters
  /\ filteredTransactions' = filterTransactions(allTransactions, newFilters)
  /\ sameArray' = FALSE
  /\ UNCHANGED <<allTransactions, caller>>

setCountries(countries) ==
  LET newFilters == [filters EXCEPT !.countries = countries] IN
  /\ filters' = newFilters
  /\ filteredTransactions' = filterTransactions(allTransactions, newFilters)
  /\ sameArray' = FALSE
  /\ UNCHANGED <<allTransactions, caller>>

setPaymentMethods(methods) ==
  LET newFilters == [filters EXCEPT !.paymentMethods = methods] IN
  /\ filters' = newFilters
  /\ filteredTransactions' = filterTransactions(allTransactions, newFilters)
  /\ sameArray' = FALSE
  /\ UNCHANGED <<allTransactions, caller>>

\* setProcessors stores the new filters and leaves the filtered list as it was
setProcessorsStale(processors) ==
  /\ filters' = [filters EXCEPT !.processors = processors]
  /\ UNCHANGED <<filteredTransactions, sameArray, allTransactions, caller>>

setProcessors(processors) ==
  LET newFilters == [filters EXCEPT !.processors = processors] IN
  /\ filters' = newFilters
  /\ filteredTransactions' = filterTransactions(allTransactions, newFilters)
  /\ sameArray' = FALSE
  /\ UNCHANGED <<allTransactions, caller>>

setDeclineCodes(codes) ==
  LET newFilters == [filters EXCEPT !.declineCodes = codes] IN
  /\ filters' = newFilters
  /\ filteredTransactions' = filterTransactions(allTransactions, newFilters)
  /\ sameArray' = FALSE
  /\ UNCHANGED <<allTransactions, caller>>

setDeclineTypes(types) ==
  LET newFilters == [filters EXCEPT !.declineTypes = types] IN
  /\ filters' = newFilters
  /\ filteredTransactions' = filterTransactions(allTransactions, newFilters)
  /\ sameArray' = FALSE
  /\ UNCHANGED <<allTransactions, caller>>

\* a value present is removed together with everything selected before it
ToggledDropsEarlier(current, v) ==
  IF includes(current, v) THEN <<>> ELSE Append(current, v)

\* current.includes(v) ? current.filter(c => c !== v) : [...current, v]
Toggled(current, v) ==
  LET other(c) == c # v IN
  IF includes(current, v) THEN SelectSeq(current, other) ELSE Append(current, v)

\* the checkboxes of the countries select one country at a time
toggleCountrySingleSelect(country) ==
  setCountries(IF includes(filters.countries, country) THEN <<>> ELSE <<country>>)

toggleCountry(country) == setCountries(Toggled(filters.countries, country))

togglePaymentMethod(method) ==
  setPaymentMethods(Toggled(filters.paymentMethods, method))

toggleProcessor(processor) == setProcessors(Toggled(filters.processors, processor))

toggleDeclineCode(code) == setDeclineCodes(Toggled(filters.declineCodes, code))

toggleDeclineType(type) == setDeclineTypes(Toggled(filters.declineTypes, type))

\* the filters are cleared and the filtered list is left as it was
resetFiltersKeepsList ==
  /\ filters' = initialFilters
  /\ UNCHANGED <<filteredTransactions, sameArray, allTransactions, caller>>

resetFilters ==
  /\ filters' = initialFilters
  /\ filteredTransactions' = allTransactions
  /\ sameArray' = TRUE
  /\ UNCHANGED <<allTransactions, caller>>

\* ------------------------------------------------------------------------
\* Inputs
\* ------------------------------------------------------------------------
\* lists without repetition of at most two values of S, as a multi-select builds
Selections(S) ==
  {<<>>} \cup {<<x>> : x \in S} \cup {<<x, y>> : <<x, y>> \in {p \in S \X S : p[1] # p[2]}}

DateRanges == [start : DateBounds, end : DateBounds]

\* three sample records of transactions.json
SamplePool ==
  {Transaction(1, "Mexico", "credit_card", "PagosRapid", <<"approved", NULL>>, Num(1)),
   Transaction(2, "Brazil", "pix", "BrasilPay", <<"declined", "insufficient_funds">>, Num(1)),
   Transaction(3, "Brazil", "credit_card", "PagosRapid", <<"declined", "suspected_fraud">>, Num(1))}

\* the values a selection of payment methods or processors is made of
OfferedMethods == {"pix"}
OfferedProcessors == {"BrasilPay"}

\* every combination of the attributes filterTransactions reads
FilterPool ==
  {Transaction(ts, co, pm, pr, sc, Num(1)) :
     ts \in Timestamps, co \in SomeCountries, pm \in SomePaymentMethods,
     pr \in SomeProcessors, sc \in StatusAndCode}

\* every combination of the attributes the aggregation functions read
AggPool ==
  {Transaction(1, "Mexico", "credit_card", "PagosRapid", sc, am) :
     sc \in StatusAndCode, am \in Amounts}

\* the attributes groupByDimension and the summary cards read: approved and
\* declined with two amounts and two decline codes for two combinations of
\* country, payment method and processor, a third combination that shares
\* its country with one and its method and processor with the other, and
\* the two records in which status and decline_code disagree
GroupPool ==
  {Transaction(1, c[1], c[2], c[3], sa[1], sa[2]) :
     c \in {<<"Mexico", "credit_card", "PagosRapid">>, <<"Brazil", "pix", "BrasilPay">>},
     sa \in {<<<<"approved", NULL>>, Num(2)>>,
             <<<<"approved", NULL>>, Num(Pow2(Precision) - 1)>>,
             <<<<"declined", "insufficient_funds">>, Num(2)>>,
             <<<<"declined", "suspected_fraud">>, Num(Pow2(Precision) - 1)>>}}
    \cup
  {Transaction(1, "Brazil", "credit_card", "PagosRapid", <<"approved", NULL>>, Num(2)),
   Transaction(1, "Brazil", "credit_card", "PagosRapid",
               <<"declined", "suspected_fraud">>, Num(Pow2(Precision) - 1)),
   Transaction(1, "Mexico", "credit_card", "PagosRapid", <<"declined", NULL>>, Num(2)),
   Transaction(1, "Mexico", "credit_card", "PagosRapid",
               <<"approved", "insufficient_funds">>, Num(Pow2(Precision) - 1))}

\* Saturday 2024-01-27 23:00Z, Sunday 2024-01-28 01:00Z, Wednesday 2024-01-31
\* 22:00Z and Thursday 2024-02-01 02:00Z
TimePoints == {647, 649, 742, 746}

\* the runtime's offset from UTC in hours: America/Sao_Paulo and UTC
UtcOffsets == {-3, 0}

\* the attributes groupByTime reads
TimePool ==
  {Transaction(ts, "Mexico", "credit_card", "PagosRapid", sc, Num(2)) :
     ts \in TimePoints,
     sc \in {<<"approved", NULL>>, <<"declined", "insufficient_funds">>}}

\* records that differ in every attribute the six functions read
CallPool ==
  {Transaction(647, "Mexico", "credit_card", "PagosRapid", <<"approved", NULL>>, Num(2)),
   Transaction(649, "Brazil", "pix", "BrasilPay",
               <<"declined", "insufficient_funds">>, Num(Pow2(Precision) - 1)),
   Transaction(742, "Brazil", "credit_card", "PagosRapid",
               <<"declined", "suspected_fraud">>, Num(2)),
   Transaction(746, "Mexico", "pix", "BrasilPay",
               <<"approved", NULL>>, Num(Pow2(Precision) - 1))}

\* no criterion, one country, one decline type, a date range
SomeCriteria ==
  {initialFilters,
   [countries |-> <<"Brazil">>],
   [declineTypes |-> <<"soft">>],
   [dateRange |-> [start |-> 649, end |-> 742]]}

FullCriteria ==
  [dateRange : DateRanges, countries : Selections(SomeCountries),
   paymentMethods : Selections(OfferedMethods),
   processors : Selections(OfferedProcessors),
   declineCodes : Selections(SomeDeclineCodes),
   declineTypes : Selections(DeclineType)]

\* a Partial<TransactionFilters>: all six fields, the three of the example in
\* the doc comment of filterTransactions, or none
PartialKeys ==
  {DOMAIN initialFilters, {"dateRange", "countries", "declineTypes"}, {}}

Criteria == {[k \in K |-> f[k]] : f \in FullCriteria, K \in PartialKeys}

Idle == /\ txs = <<>> /\ fn = "none" /\ arg = "none" /\ ret = "none"

\* ------------------------------------------------------------------------
\* Spec: the filter store
\* ------------------------------------------------------------------------
Init ==
  /\ allTransactions \in ListsOf(SamplePool, MaxStoreLen)
  /\ filters = initialFilters
  /\ filteredTransactions = allTransactions
  /\ sameArray = TRUE
  /\ Idle

Next ==
  \/ \E range \in DateRanges : setDateRange(range)
  \/ \E countries \in Selections(SomeCountries) : setCountries(countries)
  \/ \E methods \in Selections(OfferedMethods) : setPaymentMethods(methods)
  \/ \E processors \in Selections(OfferedProcessors) : setProcessors(processors)
  \/ \E codes \in Selections(SomeDeclineCodes) : setDeclineCodes(codes)
  \/ \E types \in Selections(DeclineType) : setDeclineTypes(types)
  \/ \E country \in SomeCountries : toggleCountry(country)
  \/ \E method \in OfferedMethods : togglePaymentMethod(method)
  \/ \E processor \in OfferedProcessors : toggleProcessor(processor)
  \/ \E code \in SomeDeclineCodes : toggleDeclineCode(code)
  \/ \E type \in DeclineType : toggleDeclineType(type)
  \/ resetFilters

Spec == Init /\ [][Next]_vars

\* ------------------------------------------------------------------------
\* SpecFilter: a caller of filterTransactions
\* ------------------------------------------------------------------------
EmptyStore ==
  /\ allTransactions = <<>>
  /\ filters = initialFilters
  /\ filteredTransactions = <<>>
  /\ sameArray = TRUE

CallFilterTransactions(f) ==
  /\ fn' = "filterTransactions"
  /\ arg' = f
  /\ ret' = filterTransactions(txs, f)
  /\ UNCHANGED <<txs, store>>

InitFilter ==
  /\ EmptyStore
  /\ txs \in ListsOf(FilterPool, 1) \cup ListsOf(SamplePool, MaxFilterLen)
  /\ fn = "none" /\ arg = "none" /\ ret = "none"

NextFilter == fn = "none" /\ \E f \in Criteria : CallFilterTransactions(f)

SpecFilter == InitFilter /\ [][NextFilter]_vars

\* ------------------------------------------------------------------------
\* SpecAgg: a caller of classifyDecline and of the aggregation functions
\* ------------------------------------------------------------------------
CallClassifyDecline(code) ==
  /\ fn' = "classifyDecline"
  /\ arg' = code
  /\ ret' = classifyDecline(code)
  /\ UNCHANGED <<txs, store>>

CallGetAuthorizationRate ==
  /\ fn' = "getAuthorizationRate"
  /\ arg' = "none"
  /\ ret' = getAuthorizationRate(txs)
  /\ UNCHANGED <<txs, store>>

CallGetLostRevenue ==
  /\ fn' = "getLostRevenue"
  /\ arg' = "none"
  /\ ret' = getLostRevenue(txs)
  /\ UNCHANGED <<txs, store>>

CallGetDeclineImpact ==
  /\ fn' = "getDeclineImpact"
  /\ arg' = "none"
  /\ ret' = getDeclineImpact(txs)
  /\ UNCHANGED <<txs, store>>

InitAgg ==
  /\ EmptyStore
  /\ txs \in ListsOf(AggPool, MaxLen)
  /\ fn = "none" /\ arg = "none" /\ ret = "none"

NextAgg ==
  \/ \E code \in DeclineCode \cup {UnknownCode} : CallClassifyDecline(code)
  \/ CallGetAuthorizationRate
  \/ CallGetLostRevenue
  \/ CallGetDeclineImpact

SpecAgg == InitAgg /\ [][NextAgg]_vars

\* ------------------------------------------------------------------------
\* SpecDimension: a caller of groupByDimension
\* ------------------------------------------------------------------------
CallGroupByDimension(dimension) ==
  /\ fn' = "groupByDimension"
  /\ arg' = dimension
  /\ ret' = groupByDimension(txs, dimension)
  /\ UNCHANGED <<txs, store>>

InitDimension ==
  /\ EmptyStore
  /\ txs \in ListsOf(GroupPool, MaxLen)
  /\ fn = "none" /\ arg = "none" /\ ret = "none"

NextDimension == \E dimension \in GroupByDimension : CallGroupByDimension(dimension)

SpecDimension == InitDimension /\ [][NextDimension]_vars

\* ------------------------------------------------------------------------
\* SpecTime: a caller of groupByTime
\* ------------------------------------------------------------------------
\* the input array itself is sorted by timestamp before it is grouped
CallGroupByTimeSortsInput(granularity, utcOffset) ==
  /\ fn' = "groupByTime"
  /\ arg' = [granularity |-> granularity, utcOffset |-> utcOffset]
  /\ ret' = groupByTime(txs, granularity, utcOffset)
  /\ txs' = SortAscending(txs, [i \in 1..Len(txs) |-> txs[i].timestamp])
  /\ UNCHANGED store

CallGroupByTime(granularity, utcOffset) ==
  /\ fn' = "groupByTime"
  /\ arg' = [granularity |-> granularity, utcOffset |-> utcOffset]
  /\ ret' = groupByTime(txs, granularity, utcOffset)
  /\ UNCHANGED <<txs, store>>

InitTime ==
  /\ EmptyStore
  /\ txs \in ListsOf(TimePool, MaxLen)
  /\ fn = "none" /\ arg = "none" /\ ret = "none"

NextTime ==
  \E granularity \in TimeGranularity, utcOffset \in UtcOffsets :
    CallGroupByTime(granularity, utcOffset)

SpecTime == InitTime /\ [][NextTime]_vars

\* ------------------------------------------------------------------------
\* SpecCalls: a caller of the six functions on one list, call after call
\* ------------------------------------------------------------------------
InitCalls ==
  /\ EmptyStore
  /\ txs \in ListsOf(CallPool, MaxLen)
  /\ fn = "none" /\ arg = "none" /\ ret = "none"

NextCalls ==
  \/ \E f \in SomeCriteria : CallFilterTransactions(f)
  \/ CallGetAuthorizationRate
  \/ CallGetLostRevenue
  \/ CallGetDeclineImpact
  \/ \E dimension \in GroupByDimension : CallGroupByDimension(dimension)
  \/ \E granularity \in TimeGranularity, utcOffset \in UtcOffsets :
       CallGroupByTime(granularity, utcOffset)

SpecCalls == InitCalls /\ [][NextCalls]_vars

\* ------------------------------------------------------------------------
\* SpecToggle: the store, and a filter panel whose checkbox is clicked twice
\* ------------------------------------------------------------------------
ToggleNames ==
  {"toggleCountry", "togglePaymentMethod", "toggleProcessor", "toggleDeclineCode",
   "toggleDeclineType"}

\* the list a toggle reads: get().filters.<dimension>
CurrentOf(name) ==
  CASE name = "toggleCountry" -> filters.countries
    [] name = "togglePaymentMethod" -> filters.paymentMethods
    [] name = "toggleProcessor" -> filters.processors
    [] name = "toggleDeclineCode" -> filters.declineCodes
    [] name = "toggleDeclineType" -> filters.declineTypes

\* the values the checkboxes of a dimension stand for
ValuesOf(name) ==
  CASE name = "toggleCountry" -> SomeCountries
    [] name = "togglePaymentMethod" -> OfferedMethods
    [] name = "toggleProcessor" -> OfferedProcessors
    [] name = "toggleDeclineCode" -> SomeDeclineCodes
    [] name = "toggleDeclineType" -> DeclineType

\* the panel is about to click the checkbox of a value that is not selected;
\* ret keeps the filters and the filtered list of that moment
BeginRoundTrip(name, v) ==
  /\ fn = "none"
  /\ ~includes(CurrentOf(name), v)
  /\ fn' = name
  /\ arg' = v
  /\ ret' = [filters |-> filters, filteredTransactions |-> filteredTransactions]
  /\ UNCHANGED <<txs, store>>

ClickCountry == fn = "toggleCountry" /\ toggleCountry(arg)
ClickPaymentMethod == fn = "togglePaymentMethod" /\ togglePaymentMethod(arg)
ClickProcessor == fn = "toggleProcessor" /\ toggleProcessor(arg)
ClickDeclineCode == fn = "toggleDeclineCode" /\ toggleDeclineCode(arg)
ClickDeclineType == fn = "toggleDeclineType" /\ toggleDeclineType(arg)

\* the panel is about to click Reset; ret keeps the filters and the filtered
\* list of that moment
BeginReset ==
  /\ fn = "none"
  /\ fn' = "resetFilters"
  /\ arg' = "none"
  /\ ret' = [filters |-> filters, filteredTransactions |-> filteredTransactions]
  /\ UNCHANGED <<txs, store>>

ClickReset == fn = "resetFilters" /\ resetFilters

NextToggle ==
  \/ fn = "none" /\ Next
  \/ BeginReset
  \/ ClickReset
  \/ \E name \in ToggleNames : \E v \in ValuesOf(name) : BeginRoundTrip(name, v)
  \/ ClickCountry
  \/ ClickPaymentMethod
  \/ ClickProcessor
  \/ ClickDeclineCode
  \/ ClickDeclineType

SpecToggle == Init /\ [][NextToggle]_vars

\* ------------------------------------------------------------------------
\* SpecCards: the summary cards rendered for a list of transactions
\* ------------------------------------------------------------------------
RenderTotalLostRevenueCard ==
  /\ fn' = "TotalLostRevenueCard"
  /\ arg' = "none"
  /\ ret' = TotalLostRevenueCard(txs)
  /\ UNCHANGED <<txs, store>>

RenderTopDeclineCodeCard ==
  /\ fn' = "TopDeclineCodeCard"
  /\ arg' = "none"
  /\ ret' = TopDeclineCodeCard(txs)
  /\ UNCHANGED <<txs, store>>

InitCards ==
  /\ EmptyStore
  /\ txs \in ListsOf(GroupPool, MaxLen)
  /\ fn = "none" /\ arg = "none" /\ ret = "none"

NextCards ==
  \/ RenderTotalLostRevenueCard
  \/ RenderTopDeclineCodeCard

SpecCards == InitCards /\ [][NextCards]_vars

\* ------------------------------------------------------------------------
\* SpecTable: the decline analysis table and the clicks on its headers;
\* arg holds the sort state of the component
\* ------------------------------------------------------------------------
\* useState<SortColumn>('code'), useState<SortDirection>('desc'), first render
MountTable ==
  /\ fn = "none"
  /\ fn' = "DeclineAnalysisTable"
  /\ arg' = [sortColumn |-> "code", sortDirection |-> "desc"]
  /\ ret' = DeclineAnalysisTable(txs, "code", "desc")
  /\ UNCHANGED <<txs, store>>

handleSort(column) ==
  /\ fn = "DeclineAnalysisTable"
  /\ arg' = IF arg.sortColumn = column
              THEN [sortColumn |-> column,
                    sortDirection |-> IF arg.sortDirection = "asc" THEN "desc" ELSE "asc"]
              ELSE [sortColumn |-> column, sortDirection |-> "desc"]
  /\ ret' = DeclineAnalysisTable(txs, arg'.sortColumn, arg'.sortDirection)
  /\ UNCHANGED <<fn, txs, store>>

InitTable ==
  /\ EmptyStore
  /\ txs \in ListsOf(AggPool, MaxLen)
  /\ fn = "none" /\ arg = "none" /\ ret = "none"

NextTable ==
  \/ MountTable
  \/ \E column \in SortColumn : handleSort(column)

SpecTable == InitTable /\ [][NextTable]_vars

\* ------------------------------------------------------------------------
\* SpecCommute: the store while at most MaxSelected criteria are selected
\* ------------------------------------------------------------------------
\* the operations of the store that take a value, and the values offered
SetterNames ==
  {"setDateRange", "setCountries", "setPaymentMethods", "setProcessors",
   "setDeclineCodes", "setDeclineTypes"}

OperationNames == SetterNames \cup ToggleNames

\* an open range and a range closed on both sides
SomeRanges ==
  {[start |-> 2, end |-> NullDate], [start |-> 1, end |-> 2]}

OperandsOf(name) ==
  CASE name = "setDateRange" -> DateRanges
    [] name = "setCountries" -> Selections(SomeCountries)
    [] name = "setPaymentMethods" -> Selections(OfferedMethods)
    [] name = "setProcessors" -> Selections(OfferedProcessors)
    [] name = "setDeclineCodes" -> Selections(SomeDeclineCodes)
    [] name = "setDeclineTypes" -> Selections(DeclineType)
    [] OTHER -> ValuesOf(name)

\* the field of filters an operation writes
TargetOf(name) ==
  CASE name = "setDateRange" -> "dateRange"
    [] name \in {"setCountries", "toggleCountry"} -> "countries"
    [] name \in {"setPaymentMethods", "togglePaymentMethod"} -> "paymentMethods"
    [] name \in {"setProcessors", "toggleProcessor"} -> "processors"
    [] name \in {"setDeclineCodes", "toggleDeclineCode"} -> "declineCodes"
    [] name \in {"setDeclineTypes", "toggleDeclineType"} -> "declineTypes"

\* the step of the store that is the operation called with the value
Performs(name, value) ==
  CASE name = "setDateRange" -> setDateRange(value)
    [] name = "setCountries" -> setCountries(value)
    [] name = "setPaymentMethods" -> setPaymentMethods(value)
    [] name = "setProcessors" -> setProcessors(value)
    [] name = "setDeclineCodes" -> setDeclineCodes(value)
    [] name = "setDeclineTypes" -> setDeclineTypes(value)
    [] name = "toggleCountry" -> toggleCountry(value)
    [] name = "togglePaymentMethod" -> togglePaymentMethod(value)
    [] name = "toggleProcessor" -> toggleProcessor(value)
    [] name = "toggleDeclineCode" -> toggleDeclineCode(value)
    [] name = "toggleDeclineType" -> toggleDeclineType(value)

\* the number of criteria selected: the listed values and the date bounds
Selected(f) ==
  Len(f.countries) + Len(f.paymentMethods) + Len(f.processors)
    + Len(f.declineCodes) + Len(f.declineTypes)
    + (IF f.dateRange.start # NullDate THEN 1 ELSE 0)
    + (IF f.dateRange.end # NullDate THEN 1 ELSE 0)

NextCommute ==
  /\ Selected(filters) < MaxSelected
  /\ \E name \in OperationNames : \E value \in OperandsOf(name) : Performs(name, value)

\* the store is created with a snapshot of MaxStoreLen different records
InitCommute ==
  /\ allTransactions \in
       {l \in ListsOf(SamplePool, MaxStoreLen) :
          /\ Len(l) = MaxStoreLen
          /\ \A i, j \in 1..Len(l) : i # j => l[i].timestamp # l[j].timestamp}
  /\ filters = initialFilters
  /\ filteredTransactions = allTransactions
  /\ sameArray = TRUE
  /\ Idle

SpecCommute == InitCommute /\ [][NextCommute]_vars

\* ------------------------------------------------------------------------
\* Properties
\* ------------------------------------------------------------------------
InList(list, t) == \E j \in 1..Len(list) : list[j] = t

\* a criterion of a Partial<TransactionFilters>, "no constraint" when absent
ListOf(f, k) == IF k \in DOMAIN f THEN f[k] ELSE <<>>
StartOf(f) == IF "dateRange" \in DOMAIN f THEN f.dateRange.start ELSE NullDate
EndOf(f) == IF "dateRange" \in DOMAIN f THEN f.dateRange.end ELSE NullDate

\* the six checks as the specification words them
MeetsDateRange(t, f) ==
  /\ StartOf(f) # NullDate => t.timestamp >= StartOf(f)
  /\ EndOf(f) # NullDate => t.timestamp <= EndOf(f)
MeetsCountry(t, f) ==
  ListOf(f, "countries") # <<>> => InList(ListOf(f, "countries"), t.country)
MeetsPaymentMethod(t, f) ==
  ListOf(f, "paymentMethods") # <<>> =>
    InList(ListOf(f, "paymentMethods"), t.payment_method)
MeetsProcessor(t, f) ==
  ListOf(f, "processors") # <<>> => InList(ListOf(f, "processors"), t.processor)
MeetsDeclineCode(t, f) ==
  ListOf(f, "declineCodes") # <<>> =>
    t.status = "declined" /\ InList(ListOf(f, "declineCodes"), t.decline_code)
SoftCodes == {"insufficient_funds", "issuer_unavailable", "processing_error", "timeout"}
ClassOf(code) == IF code \in SoftCodes THEN "soft" ELSE "hard"
MeetsDeclineType(t, f) ==
  ListOf(f, "declineTypes") # <<>> =>
    /\ t.status = "declined"
    /\ t.decline_code # NULL
    /\ InList(ListOf(f, "declineTypes"), ClassOf(t.decline_code))

ListKeys == {"countries", "paymentMethods", "processors", "declineCodes", "declineTypes"}

MeetsKey(t, f, k) ==
  CASE k = "dateRange" -> MeetsDateRange(t, f)
    [] k = "countries" -> MeetsCountry(t, f)
    [] k = "paymentMethods" -> MeetsPaymentMethod(t, f)
    [] k = "processors" -> MeetsProcessor(t, f)
    [] k = "declineCodes" -> MeetsDeclineCode(t, f)
    [] k = "declineTypes" -> MeetsDeclineType(t, f)

Filtered == fn = "filterTransactions"

\* C1: in every state of the store, filteredTransactions is
\* filterTransactions(allTransactions, filters) for the filters stored now.
C1_FilteredMatchesFilters ==
  filteredTransactions = filterTransactions(allTransactions, filters)

\* a filter is set and hides a part of the snapshot
C1_Witness ==
  /\ filters # initialFilters
  /\ Len(filteredTransactions) > 0
  /\ Len(filteredTransactions) < Len(allTransactions)

\* C2: every element of filterTransactions(T, F) is an element of T and passes
\* the six checks: any listed value matches, every non-empty dimension must.
C2_ResultIsSubsetPassingAllChecks ==
  Filtered =>
    \A j \in 1..Len(ret) :
      /\ InList(txs, ret[j])
      /\ \A k \in ListKeys \cup {"dateRange"} : MeetsKey(ret[j], arg, k)

\* two dimensions are constrained, one with two listed values, and a part of
\* the input is kept
C2_Witness ==
  /\ Filtered
  /\ Len(ListOf(arg, "countries")) = 2
  /\ Len(ListOf(arg, "declineTypes")) = 1
  /\ Len(ret) > 0
  /\ Len(ret) < Len(txs)

\* C3: an empty list constrains nothing: a transaction meeting the checks of
\* the other dimensions is kept, and with all five lists empty and both date
\* bounds null the result is the whole input.
C3_EmptyListIsNoConstraint ==
  Filtered =>
    /\ \A k \in ListKeys :
         ListOf(arg, k) = <<>> =>
           \A i \in 1..Len(txs) :
             (\A o \in (ListKeys \cup {"dateRange"}) \ {k} : MeetsKey(txs[i], arg, o))
               => InList(ret, txs[i])
    /\ ((\A k \in ListKeys : ListOf(arg, k) = <<>>)
          /\ StartOf(arg) = NullDate /\ EndOf(arg) = NullDate)
         => ret = txs

\* the initial filters of the store applied to a list of three
C3_Witness ==
  /\ Filtered
  /\ arg = initialFilters
  /\ Len(txs) = 3
  /\ ret = txs

\* C4: with declineCodes or declineTypes non-empty the result holds declined
\* transactions only, with a code of declineCodes and a class of declineTypes.
C4_DeclineFiltersExcludeApproved ==
  (Filtered /\ (ListOf(arg, "declineCodes") # <<>> \/ ListOf(arg, "declineTypes") # <<>>))
    => \A j \in 1..Len(ret) :
         /\ ret[j].status = "declined"
         /\ ListOf(arg, "declineCodes") # <<>> =>
              InList(arg.declineCodes, ret[j].decline_code)
         /\ ListOf(arg, "declineTypes") # <<>> =>
              InList(arg.declineTypes, classifyDecline(ret[j].decline_code))

\* declineTypes = ['soft'] on a list with an approved and a hard-declined
\* transaction keeps the soft decline alone
C4_Witness ==
  /\ Filtered
  /\ ListOf(arg, "declineTypes") = <<"soft">>
  /\ ListOf(arg, "declineCodes") = <<>>
  /\ \E i \in 1..Len(txs) : txs[i].status = "approved"
  /\ \E i \in 1..Len(txs) : txs[i].decline_code = "suspected_fraud"
  /\ Len(ret) = 1
  /\ ret[1].decline_code = "insufficient_funds"

OnlyDateRange(f) == \A k \in ListKeys : ListOf(f, k) = <<>>

\* C5: the date check keeps a transaction exactly when its timestamp is
\* >= start (if set) and <= end (if set), both bounds inclusive.
C5_DateRangeInclusive ==
  Filtered =>
    \A i \in 1..Len(txs) :
      /\ InList(ret, txs[i]) => MeetsDateRange(txs[i], arg)
      /\ (OnlyDateRange(arg) /\ MeetsDateRange(txs[i], arg)) => InList(ret, txs[i])

\* start = end = the timestamp of the one transaction kept
C5_Witness ==
  /\ Filtered
  /\ OnlyDateRange(arg)
  /\ StartOf(arg) # NullDate
  /\ EndOf(arg) = StartOf(arg)
  /\ Len(txs) = 3
  /\ Len(ret) = 1
  /\ ret[1].timestamp = EndOf(arg)

\* the approved (declined) records of a list, counted over its positions
CountWhere(T, status) == Cardinality({i \in 1..Len(T) : T[i].status = status})

\* the value of a number whose exponent is not negative
Exact(x) == x.m * Pow2(x.e)

\* the sum of the amounts of the records of a status, in exact arithmetic
RECURSIVE ExactSum(_, _)
ExactSum(T, statuses) ==
  IF Len(T) = 0 THEN 0
  ELSE ExactSum(Front(T), statuses)
         + (IF Last(T).status \in statuses THEN Exact(Last(T).amount) ELSE 0)

\* the same sum accumulated in input order in the arithmetic of the program
RECURSIVE FloatSum(_, _)
FloatSum(T, statuses) ==
  IF Len(T) = 0 THEN Zero
  ELSE IF Last(T).status \in statuses
       THEN FAdd(FloatSum(Front(T), statuses), Last(T).amount)
       ELSE FloatSum(Front(T), statuses)

\* C6: classifyDecline returns 'soft' exactly for insufficient_funds,
\* issuer_unavailable, processing_error and timeout, and 'hard' for every
\* other code, a code of neither list included.
C6_ClassifyDeclineTotal ==
  fn = "classifyDecline" =>
    /\ ret \in DeclineType
    /\ ret = "soft" <=> arg \in SoftCodes

\* a code of neither list was classified
C6_Witness == fn = "classifyDecline" /\ arg = UnknownCode /\ ret = "hard"

\* C7: authorizationRate is approved / total * 100 for a non-empty list and 0
\* for the empty list, for which every field of the result is 0; it is never
\* an undefined value.
C7_AuthorizationRateZeroGuard ==
  fn = "getAuthorizationRate" =>
    /\ IsFinite(ret.authorizationRate)
    /\ Len(txs) > 0 =>
         ret.authorizationRate =
           FMul(FDiv(Num(CountWhere(txs, "approved")), Num(Len(txs))), Num(100))
    /\ Len(txs) = 0 =>
         ret = [total |-> 0, approved |-> 0, declined |-> 0,
                authorizationRate |-> Zero, totalRevenue |-> Zero,
                lostRevenue |-> Zero]

\* the rate of the empty list
C7_Witness ==
  fn = "getAuthorizationRate" /\ Len(txs) = 0 /\ ret.authorizationRate = Zero

\* the rate of a list of which one in three is approved
C7_WitnessThird ==
  /\ fn = "getAuthorizationRate"
  /\ Len(txs) = 3
  /\ ret.approved = 1
  /\ ret.authorizationRate = FMul(FDiv(Num(1), Num(3)), Num(100))

BothStatuses == {"approved", "declined"}

\* C8 as stated: approved + declined is the length of T, and totalRevenue +
\* lostRevenue equals the sum of amount over all transactions of T (the exact
\* sum, or the sum accumulated over T in input order).
C8_RevenuePartitionExact ==
  fn = "getAuthorizationRate" =>
    /\ ret.approved + ret.declined = Len(txs)
    /\ \/ Exact(FAdd(ret.totalRevenue, ret.lostRevenue)) = ExactSum(txs, BothStatuses)
       \/ FAdd(ret.totalRevenue, ret.lostRevenue) = FloatSum(txs, BothStatuses)

\* 2^-Precision, the largest relative error of one rounded addition, times n
\* bounds the error of the partition of a list of n amounts:
\* |x - sum| * 2^Precision <= n * sum
WithinRounding(x, sum, n) ==
  LET diff == IF Exact(x) >= sum THEN Exact(x) - sum ELSE sum - Exact(x)
  IN diff * Pow2(Precision) <= n * sum

\* C8, amended: approved + declined is the length of T; approved is the number
\* of approved and declined the number of all other transactions; totalRevenue +
\* lostRevenue equals the sum of all amounts exactly when that sum has at
\* most Precision significant bits, and otherwise within the rounding of the
\* additions.
C8_RevenuePartition ==
  fn = "getAuthorizationRate" =>
    /\ ret.approved + ret.declined = Len(txs)
    /\ ret.approved = CountWhere(txs, "approved")
    /\ ret.declined = CountWhere(txs, "declined")
    /\ ExactSum(txs, BothStatuses) < Pow2(Precision) =>
         Exact(FAdd(ret.totalRevenue, ret.lostRevenue)) = ExactSum(txs, BothStatuses)
    /\ WithinRounding(FAdd(ret.totalRevenue, ret.lostRevenue),
                      ExactSum(txs, BothStatuses), Len(txs))

\* approved and declined amounts are both present and their sum is rounded
C8_Witness ==
  /\ fn = "getAuthorizationRate"
  /\ ret.approved > 0
  /\ ret.declined > 0
  /\ Exact(FAdd(ret.totalRevenue, ret.lostRevenue)) # ExactSum(txs, BothStatuses)

\* C9: getLostRevenue(T) equals getAuthorizationRate(T).lostRevenue, both the
\* sum of amount over the declined transactions of T.
C9_LostRevenueAgrees ==
  /\ fn = "getLostRevenue" =>
       /\ ret = getAuthorizationRate(txs).lostRevenue
       /\ ret = FloatSum(txs, {"declined"})
  /\ fn = "getAuthorizationRate" =>
       /\ ret.lostRevenue = getLostRevenue(txs)
       /\ ret.lostRevenue = FloatSum(txs, {"declined"})

\* lost revenue of a list with an approved transaction, a declined one with a
\* code and a declined one without
C9_Witness ==
  /\ fn = "getLostRevenue"
  /\ \E i \in 1..Len(txs) : txs[i].status = "approved"
  /\ \E i \in 1..Len(txs) : txs[i].status = "declined" /\ txs[i].decline_code = NULL
  /\ \E i \in 1..Len(txs) : txs[i].status = "declined" /\ txs[i].decline_code # NULL
  /\ ret # Zero

\* the positions of the declined transactions of T that carry the code
DeclinedWith(T, code) ==
  {i \in 1..Len(T) : T[i].status = "declined" /\ T[i].decline_code = code}

\* the decline codes present among the declined transactions of T
CodesPresent(T) ==
  {T[i].decline_code : i \in {i \in 1..Len(T) :
                                T[i].status = "declined" /\ T[i].decline_code # NULL}}

\* C10: getDeclineImpact(T) has exactly one row per distinct decline code
\* present among the declined transactions of T (none when there is no
\* declined transaction), and the rows are ordered non-increasing by count.
C10_OneRowPerCodeSortedByCount ==
  fn = "getDeclineImpact" =>
    /\ Len(ret) = Cardinality(CodesPresent(txs))
    /\ {ret[j].code : j \in 1..Len(ret)} = CodesPresent(txs)
    /\ \A j \in 1..Len(ret) : ret[j].count = Cardinality(DeclinedWith(txs, ret[j].code))
    /\ \A j \in 1..(Len(ret) - 1) : ret[j].count >= ret[j + 1].count
    /\ CountWhere(txs, "declined") = 0 => ret = <<>>

\* the code met second is the more frequent one and comes first
C10_Witness ==
  /\ fn = "getDeclineImpact"
  /\ Len(ret) = 2
  /\ ret[1].count = 2
  /\ ret[2].count = 1
  /\ txs[1].decline_code = ret[2].code

\* status and decline_code agree: approved without a code, declined with one
WellFormed(T) ==
  \A i \in 1..Len(T) : T[i].status = "approved" <=> T[i].decline_code = NULL

\* the percentages of the first j rows added up in the order of the rows
RECURSIVE PercentageSum(_, _)
PercentageSum(rows, j) ==
  IF j = 0 THEN Zero ELSE FAdd(PercentageSum(rows, j - 1), rows[j].percentage)

\* |x - v| <= n * 2^-Precision * v for a number x and an integer v
NearInteger(x, v, n) ==
  LET scale == IF x.e < 0 THEN Pow2(0 - x.e) ELSE 1
      xs    == IF x.e < 0 THEN x.m ELSE x.m * Pow2(x.e)
      diff  == IF xs >= v * scale THEN xs - v * scale ELSE v * scale - xs
  IN diff * Pow2(Precision) <= n * v * scale

Impact == fn = "getDeclineImpact"

\* C11 as stated, for lists in which status and decline_code agree: with a
\* declined transaction in T the percentages sum to 100, every cumulative
\* percentage is the sum of the percentages up to its row, and the last one
\* is 100.
C11_PercentagesSumTo100 ==
  (Impact /\ WellFormed(txs) /\ CountWhere(txs, "declined") > 0) =>
    /\ Len(ret) > 0
    /\ PercentageSum(ret, Len(ret)) = Num(100)
    /\ \A j \in 1..Len(ret) : ret[j].cumulativePercentage = PercentageSum(ret, j)
    /\ \A j \in 1..(Len(ret) - 1) :
         FLe(ret[j].cumulativePercentage, ret[j + 1].cumulativePercentage)
    /\ ret[Len(ret)].cumulativePercentage = Num(100)

\* C11, amended: with a declined transaction that carries a code in T, every
\* cumulative percentage is the sum of the percentages up to its row in the
\* arithmetic of the program, the cumulative percentages do not decrease,
\* and the last one is 100 up to the rounding of the divisions,
\* multiplications and additions (exactly 100 for a single row).
C11_PercentagesSumNear100 ==
  (Impact /\ \E i \in 1..Len(txs) : HasDeclineCode(txs[i])) =>
    /\ Len(ret) > 0
    /\ \A j \in 1..Len(ret) : ret[j].cumulativePercentage = PercentageSum(ret, j)
    /\ \A j \in 1..(Len(ret) - 1) :
         FLe(ret[j].cumulativePercentage, ret[j + 1].cumulativePercentage)
    /\ NearInteger(ret[Len(ret)].cumulativePercentage, 100, Len(ret) + 2)
    /\ Len(ret) = 1 => ret[1].cumulativePercentage = Num(100)

\* two rows, one and two declines of three, whose percentages do not add up
\* to 100
C11_Witness ==
  /\ Impact
  /\ WellFormed(txs)
  /\ Len(ret) = 2
  /\ ret[1].count = 2
  /\ ret[2].count = 1
  /\ ret[2].cumulativePercentage # Num(100)

Grouped == fn = "groupByDimension"

\* the positions of the transactions of T whose attribute key has the value
PositionsWith(T, key, value) == {i \in 1..Len(T) : T[i][key] = value}

\* the positions of the transactions of T whose attribute key is not null
PositionsWithValue(T, key) == {i \in 1..Len(T) : T[i][key] # NULL}

\* C12: for every T and every dimension D of country, payment_method,
\* processor and decline_code, the groups of groupByDimension(T, D) are
\* ordered non-increasing by total.
C12_GroupsSortedByTotal ==
  Grouped =>
    /\ arg \in {"country", "payment_method", "processor", "decline_code"}
    /\ \A j \in 1..(Len(ret) - 1) : ret[j].total >= ret[j + 1].total

\* the value met second is the more frequent one and comes first
C12_Witness ==
  /\ Grouped
  /\ Len(ret) = 2
  /\ ret[1].total = 2
  /\ ret[2].total = 1
  /\ txs[1][arg] = ret[2].dimension

RECURSIVE SumOfTotals(_)
SumOfTotals(rows) ==
  IF Len(rows) = 0 THEN 0 ELSE SumOfTotals(Front(rows)) + Last(rows).total

\* the groups that count the transaction at position i of T
GroupsCounting(rows, T, key, i) ==
  {j \in 1..Len(rows) : rows[j].dimension = T[i][key]}

\* C13 as stated, for non-empty lists in which status and decline_code
\* agree: the totals of the groups sum to the number of transactions with a
\* non-null value for D, every such transaction is counted in exactly one
\* group, and a list whose transactions all share one value for D yields
\* exactly one group whose total is the length of T.
C13_TotalsPartitionShared ==
  (Grouped /\ WellFormed(txs) /\ Len(txs) > 0) =>
    /\ SumOfTotals(ret) = Cardinality(PositionsWithValue(txs, arg))
    /\ \A i \in PositionsWithValue(txs, arg) :
         Cardinality(GroupsCounting(ret, txs, arg, i)) = 1
    /\ (\A i \in 1..Len(txs) : txs[i][arg] = txs[1][arg]) =>
         Len(ret) = 1 /\ ret[1].total = Len(txs)

\* C13, amended: the totals of the groups sum to the number of transactions
\* with a non-null value for D; every such transaction is counted in exactly
\* one group, the group of its value, whose total is the number of
\* transactions with that value; no group stands for null; a non-empty list
\* whose transactions all share one non-null value yields exactly one group
\* whose total is the length of T, and a list whose values for D are all
\* null yields no group.
C13_TotalsPartition ==
  Grouped =>
    /\ SumOfTotals(ret) = Cardinality(PositionsWithValue(txs, arg))
    /\ \A i \in PositionsWithValue(txs, arg) :
         Cardinality(GroupsCounting(ret, txs, arg, i)) = 1
    /\ \A j \in 1..Len(ret) :
         /\ ret[j].dimension # NULL
         /\ ret[j].total = Cardinality(PositionsWith(txs, arg, ret[j].dimension))
         /\ ret[j].total > 0
    /\ (Len(txs) > 0 /\ txs[1][arg] # NULL
          /\ \A i \in 1..Len(txs) : txs[i][arg] = txs[1][arg]) =>
         Len(ret) = 1 /\ ret[1].total = Len(txs)
    /\ PositionsWithValue(txs, arg) = {} => ret = <<>>

\* two groups by decline code of a list with an approved transaction, which
\* no group counts
C13_Witness ==
  /\ Grouped
  /\ arg = "decline_code"
  /\ WellFormed(txs)
  /\ Len(txs) = 3
  /\ Len(ret) = 2
  /\ SumOfTotals(ret) = 2

\* the approved amounts of the transactions of T with the value, in exact
\* arithmetic
RECURSIVE ExactApprovedOf(_, _, _)
ExactApprovedOf(T, key, value) ==
  IF Len(T) = 0 THEN 0
  ELSE ExactApprovedOf(Front(T), key, value)
         + (IF Last(T)[key] = value /\ Last(T).status = "approved"
              THEN Exact(Last(T).amount) ELSE 0)

\* the same sum accumulated in input order in the arithmetic of the program
RECURSIVE FloatApprovedOf(_, _, _)
FloatApprovedOf(T, key, value) ==
  IF Len(T) = 0 THEN Zero
  ELSE IF Last(T)[key] = value /\ Last(T).status = "approved"
       THEN FAdd(FloatApprovedOf(Front(T), key, value), Last(T).amount)
       ELSE FloatApprovedOf(Front(T), key, value)

\* C14: in every group of groupByDimension, totalAmount is the sum of amount
\* over the approved transactions of the group, accumulated in input order
\* (the exact sum when that has at most Precision significant bits), declined
\* amounts contribute nothing, and approved + declined = total.
C14_TotalAmountOfApprovedOnly ==
  Grouped =>
    \A j \in 1..Len(ret) :
      LET members == PositionsWith(txs, arg, ret[j].dimension) IN
      /\ ret[j].totalAmount = FloatApprovedOf(txs, arg, ret[j].dimension)
      /\ ExactApprovedOf(txs, arg, ret[j].dimension) < Pow2(Precision) =>
           Exact(ret[j].totalAmount) = ExactApprovedOf(txs, arg, ret[j].dimension)
      /\ (\A i \in members : txs[i].status # "approved") => ret[j].totalAmount = Zero
      /\ ret[j].approved = Cardinality({i \in members : txs[i].status = "approved"})
      /\ ret[j].declined = Cardinality({i \in members : txs[i].status = "declined"})
      /\ ret[j].approved + ret[j].declined = ret[j].total

\* a group with an approved and a declined transaction of different amounts
C14_Witness ==
  /\ Grouped
  /\ Len(ret) >= 1
  /\ ret[1].approved = 1
  /\ ret[1].declined = 1
  /\ \E i, k \in PositionsWith(txs, arg, ret[1].dimension) :
       /\ txs[i].status = "approved"
       /\ txs[k].status = "declined"
       /\ txs[i].amount # txs[k].amount
       /\ ret[1].totalAmount = txs[i].amount

Timed == fn = "groupByTime"

\* the local day on which the day, week (from Sunday) or month of a
\* timestamp starts
BucketStart(timestamp, granularity, utcOffset) ==
  LET day == LocalDay(timestamp, utcOffset) IN
  CASE granularity = "day" -> day
    [] granularity = "week" -> CHOOSE d \in (day - 6)..day : (d + 1) % 7 = 0
    [] granularity = "month" ->
         CHOOSE d \in (day - 30)..day :
           /\ d >= 0
           /\ format(d).day = 1
           /\ format(d).month = format(day).month

\* the bucket starts of the transactions of T
BucketStarts(T, granularity, utcOffset) ==
  {BucketStart(T[i].timestamp, granularity, utcOffset) : i \in 1..Len(T)}

\* C15: for every T in any input order and every granularity,
\* groupByTime(T, granularity) has one data point per distinct bucket start,
\* in strictly ascending order of timestamp, and a data point counts exactly
\* the transactions whose timestamps truncate to its day, week or month
\* start (in the local time of the runtime).
C15_OnePointPerBucketAscending ==
  Timed =>
    LET g      == arg.granularity
        offset == arg.utcOffset
        starts == BucketStarts(txs, g, offset)
    IN /\ Len(ret) = Cardinality(starts)
       /\ {ret[j].date : j \in 1..Len(ret)} = {format(d) : d \in starts}
       /\ \A j \in 1..(Len(ret) - 1) : ret[j].timestamp < ret[j + 1].timestamp
       /\ \A j \in 1..Len(ret) :
            \E d \in starts :
              /\ ret[j].date = format(d)
              /\ ret[j].timestamp = d * 24
              /\ ret[j].total =
                   Cardinality({i \in 1..Len(txs) :
                                  BucketStart(txs[i].timestamp, g, offset) = d})

\* three transactions given latest first, two of them of one week and on
\* different days, grouped by week into two data points
C15_Witness ==
  /\ Timed
  /\ arg.granularity = "week"
  /\ Len(txs) = 3
  /\ txs[1].timestamp > txs[2].timestamp
  /\ txs[2].timestamp > txs[3].timestamp
  /\ Len(ret) = 2
  /\ ret[2].total = 2
  /\ Cardinality(BucketStarts(txs, "day", arg.utcOffset)) = 3

C17_ToggleRoundTrip ==
  [][(fn \in ToggleNames /\ includes(CurrentOf(fn), arg)) =>
       /\ filters' = ret.filters
       /\ filteredTransactions' = ret.filteredTransactions]_vars

\* the first click has selected a decline type next to another one and has
\* changed the filtered list
C17_Witness ==
  /\ fn = "toggleDeclineType"
  /\ Len(ret.filters.declineTypes) = 1
  /\ filters.declineTypes = Append(ret.filters.declineTypes, arg)
  /\ filteredTransactions # ret.filteredTransactions
  /\ ret.filteredTransactions # allTransactions

\* C18: from any reachable store state, resetFilters sets filters to the
\* initial value, both date bounds null and all five lists empty, and
\* filteredTransactions to the whole of allTransactions, which is what
\* filterTransactions(allTransactions, initial filters) returns.
C18_ResetRestoresAll ==
  [][fn = "resetFilters" =>
       /\ filters'.dateRange.start = NullDate
       /\ filters'.dateRange.end = NullDate
       /\ \A k \in ListKeys : filters'[k] = <<>>
       /\ allTransactions' = allTransactions
       /\ filteredTransactions' = allTransactions
       /\ filteredTransactions' = filterTransactions(allTransactions, filters')]_vars

\* Reset was clicked with a date range and a country selected and a part of
\* the transactions filtered out
C18_Witness ==
  /\ fn = "resetFilters"
  /\ ret.filters.dateRange.start # NullDate
  /\ ret.filters.countries # <<>>
  /\ Len(ret.filteredTransactions) < Len(allTransactions)
  /\ filters = initialFilters
  /\ filteredTransactions = allTransactions

\* the declined amounts of T that carry the currency, accumulated in input
\* order in the arithmetic of the program
RECURSIVE DeclinedSumIn(_, _)
DeclinedSumIn(T, currency) ==
  IF Len(T) = 0 THEN Zero
  ELSE IF Last(T).status = "declined" /\ Last(T).currency = currency
       THEN FAdd(DeclinedSumIn(Front(T), currency), Last(T).amount)
       ELSE DeclinedSumIn(Front(T), currency)

\* C19: amounts in different currencies are never added together: the lost
\* revenue the Total Lost Revenue card reports, which is getLostRevenue of its
\* transactions, is a sum of declined amounts that all carry the detected
\* primary currency.
C19_LostRevenueInOneCurrency ==
  (fn = "TotalLostRevenueCard" /\ WellFormed(txs)) =>
    /\ ret.lostRevenue = getLostRevenue(txs)
    /\ ret.lostRevenue = DeclinedSumIn(txs, ret.primaryCurrency)

C21_FilteredNeverAliasesSnapshot == sameArray = FALSE

\* the step replaces the field key of filters by value and keeps the others
ReplacesOnly(key, value) ==
  /\ DOMAIN filters' = DOMAIN filters
  /\ filters'[key] = value
  /\ \A k \in DOMAIN filters \ {key} : filters'[k] = filters[k]

\* C22: setDateRange, setCountries, setPaymentMethods, setProcessors,
\* setDeclineCodes and setDeclineTypes each replace their own field of
\* filters and leave the other five as they were, and no store operation
\* changes allTransactions.
C22_SettersReplaceOwnFieldOnly ==
  [][/\ allTransactions' = allTransactions
     /\ \A range \in DateRanges :
          setDateRange(range) => ReplacesOnly("dateRange", range)
     /\ \A countries \in Selections(SomeCountries) :
          setCountries(countries) => ReplacesOnly("countries", countries)
     /\ \A methods \in Selections(OfferedMethods) :
          setPaymentMethods(methods) => ReplacesOnly("paymentMethods", methods)
     /\ \A processors \in Selections(OfferedProcessors) :
          setProcessors(processors) => ReplacesOnly("processors", processors)
     /\ \A codes \in Selections(SomeDeclineCodes) :
          setDeclineCodes(codes) => ReplacesOnly("declineCodes", codes)
     /\ \A types \in Selections(DeclineType) :
          setDeclineTypes(types) => ReplacesOnly("declineTypes", types)]_vars

\* all six fields of filters have been set, one after the other
C22_Witness ==
  /\ filters.dateRange.start # NullDate
  /\ filters.dateRange.end # NullDate
  /\ \A k \in ListKeys : filters[k] # <<>>
  /\ Len(allTransactions) = MaxStoreLen

\* the position in T of the first declined transaction that carries the code
FirstDeclineOf(T, code) ==
  CHOOSE i \in DeclinedWith(T, code) : \A k \in DeclinedWith(T, code) : i <= k

\* C23: rows of getDeclineImpact with equal count appear in the order in
\* which their decline codes first occur among the declined transactions;
\* for declines insufficient_funds and suspected_fraud, one transaction each,
\* the first row is insufficient_funds (soft, cumulative 50) and the second
\* suspected_fraud (hard, cumulative 100).
C23_TiesInFirstOccurrenceOrder ==
  Impact =>
    /\ \A j, k \in 1..Len(ret) :
         (j < k /\ ret[j].count = ret[k].count) =>
           FirstDeclineOf(txs, ret[j].code) < FirstDeclineOf(txs, ret[k].code)
    /\ (/\ Len(txs) = 2
        /\ HasDeclineCode(txs[1]) /\ txs[1].decline_code = "insufficient_funds"
        /\ HasDeclineCode(txs[2]) /\ txs[2].decline_code = "suspected_fraud") =>
         /\ Len(ret) = 2
         /\ ret[1].code = "insufficient_funds" /\ ret[1].type = "soft"
         /\ ret[1].count = 1 /\ ret[1].percentage = Num(50)
         /\ ret[1].cumulativePercentage = Num(50)
         /\ ret[2].code = "suspected_fraud" /\ ret[2].type = "hard"
         /\ ret[2].count = 1 /\ ret[2].percentage = Num(50)
         /\ ret[2].cumulativePercentage = Num(100)

\* a tie between suspected_fraud, met first, and insufficient_funds, with an
\* approved transaction between them
C23_Witness ==
  /\ Impact
  /\ Len(txs) = 3
  /\ HasDeclineCode(txs[1]) /\ txs[1].decline_code = "suspected_fraud"
  /\ txs[2].status = "approved"
  /\ HasDeclineCode(txs[3]) /\ txs[3].decline_code = "insufficient_funds"
  /\ Len(ret) = 2
  /\ ret[1].code = "suspected_fraud"
  /\ ret[1].count = ret[2].count

\* C24: successive clicks on one column header of the decline analysis table
\* cycle through three sort states: a click on a column that is not sorted
\* sorts it descending, a click on a column sorted descending sorts it
\* ascending, and a click on a column sorted ascending removes the sort, the
\* column showing the no-sort indicator.
C24_SortCycleOfThree ==
  [][\A column \in SortColumn :
       handleSort(column) =>
         /\ ret.sortIcon[column] = "none" => ret'.sortIcon[column] = "desc"
         /\ ret.sortIcon[column] = "desc" => ret'.sortIcon[column] = "asc"
         /\ ret.sortIcon[column] = "asc" => ret'.sortIcon[column] = "none"]_vars

\* C25: whenever the decline analysis table shows rows, in its initial sort
\* state too, the highlighted first row is a decline code whose count is the
\* greatest among the declined transactions.
C25_FirstRowIsMostFrequent ==
  (fn = "DeclineAnalysisTable" /\ WellFormed(txs) /\ Len(ret.declines) > 0) =>
    \A code \in CodesPresent(txs) :
      ret.declines[1].count >= Cardinality(DeclinedWith(txs, code))

\* the positions of T whose transaction passes the six checks of F
PassingPositions(T, F) ==
  {i \in 1..Len(T) : \A k \in ListKeys \cup {"dateRange"} : MeetsKey(T[i], F, k)}

\* the j-th of a set of positions, counted from the lowest
NthOf(P, j) == CHOOSE i \in P : Cardinality({k \in P : k < i}) = j - 1

\* C26: filterTransactions(T, F) is exactly the subsequence of T passing the
\* six checks: it has one element for each passing position of T, none
\* dropped and none repeated, and its j-th element is the transaction at the
\* j-th passing position, so the order of T is kept.
C26_ResultIsPassingSubsequence ==
  Filtered =>
    /\ Len(ret) = Cardinality(PassingPositions(txs, arg))
    /\ \A j \in 1..Len(ret) : ret[j] = txs[NthOf(PassingPositions(txs, arg), j)]

\* the first and the third transaction, alike but for their id, are kept and
\* the second one between them is dropped
C26_Witness ==
  /\ Filtered
  /\ Len(txs) = 3
  /\ Len(ret) = 2
  /\ ret[1] = txs[1]
  /\ ret[2] = txs[3]
  /\ [txs[1] EXCEPT !.id = 0] = [txs[3] EXCEPT !.id = 0]
  /\ Len(ListOf(arg, "countries")) = 1

\* the list a toggle of the value leaves: without the value when it was
\* listed, with the value at its end when it was not
Flipped(list, value) ==
  IF InList(list, value) THEN SelectSeq(list, LAMBDA c : c # value)
  ELSE Append(list, value)

\* the store whose filters are f: the filtered list is derived from the
\* snapshot
Derived(snapshot, f) ==
  [allTransactions |-> snapshot,
   filters |-> f,
   filteredTransactions |->
     SelectSeq(snapshot,
               LAMBDA t : \A k \in ListKeys \cup {"dateRange"} : MeetsKey(t, f, k))]

\* the store an operation leaves when called on the store s: a setter stores
\* the value in its field of filters, a toggle the flipped list
After(s, name, value) ==
  LET key == TargetOf(name) IN
  CHOOSE after \in
    {Derived(s.allTransactions, f) :
       f \in {[s.filters EXCEPT ![key] = IF name \in SetterNames THEN value
                                         ELSE Flipped(s.filters[key], value)]}} : TRUE

\* two operations on independent targets: on different fields of filters, or
\* two toggles of distinct values of one field
Independent(name1, value1, name2, value2) ==
  IF TargetOf(name1) # TargetOf(name2) THEN TRUE
  ELSE name1 \in ToggleNames /\ name2 = name1 /\ value1 # value2

Values(list) == {list[i] : i \in 1..Len(list)}

\* the same date range, the same set of selected values in every dimension
\* and the same filtered list
SameSelection(s1, s2) ==
  /\ s1.filters.dateRange = s2.filters.dateRange
  /\ \A k \in ListKeys : Values(s1.filters[k]) = Values(s2.filters[k])
  /\ s1.filteredTransactions = s2.filteredTransactions

\* the operation is reflected in the store s, reached from the store start
Reflected(start, s, name, value) ==
  IF name \in SetterNames THEN s.filters[TargetOf(name)] = value
  ELSE value \in Values(s.filters[TargetOf(name)]) <=>
         value \notin Values(start.filters[TargetOf(name)])

\* C27: store mutations on independent targets commute and none is lost: each
\* operation leaves the store After describes, and for a second operation on
\* an independent target (a toggle of another value of the same dimension, or
\* a setter or toggle of another dimension) the two orders from the same
\* state give the same set of selected values in every dimension and the same
\* filteredTransactions, with both operations reflected.
C27_IndependentMutationsCommute ==
  [][\A name1 \in OperationNames : \A value1 \in OperandsOf(name1) :
       Performs(name1, value1) =>
         \A start \in {[allTransactions |-> allTransactions, filters |-> filters,
                        filteredTransactions |-> filteredTransactions]} :
         \A first \in {[allTransactions |-> allTransactions', filters |-> filters',
                        filteredTransactions |-> filteredTransactions']} :
           /\ first = After(start, name1, value1)
           /\ \A name2 \in OperationNames : \A value2 \in OperandsOf(name2) :
                Independent(name1, value1, name2, value2) =>
                  \A firstSecond \in {After(first, name2, value2)} :
                  \A secondFirst \in {After(After(start, name2, value2), name1, value1)} :
                    /\ SameSelection(firstSecond, secondFirst)
                    /\ Reflected(start, firstSecond, name1, value1)
                    /\ Reflected(start, firstSecond, name2, value2)
                    /\ Reflected(start, secondFirst, name1, value1)
                    /\ Reflected(start, secondFirst, name2, value2)]_vars

\* both countries are selected, Brazil first, a decline type is selected too,
\* and a part of the snapshot is hidden
C27_Witness ==
  /\ filters.countries = <<"Brazil", "Mexico">>
  /\ filters.declineTypes = <<"hard">>
  /\ Len(filteredTransactions) > 0
  /\ Len(filteredTransactions) < Len(allTransactions)

\* every declined transaction of T carries a decline code
AllDeclinesCoded(T) ==
  \A i \in 1..Len(T) : T[i].status = "declined" => T[i].decline_code # NULL

\* the sum of the count fields of the first j rows
RECURSIVE CountSum(_, _)
CountSum(rows, j) == IF j = 0 THEN 0 ELSE CountSum(rows, j - 1) + rows[j].count

\* the sum of the lostRevenue fields of the first j rows, in exact arithmetic
\* and accumulated down the list in the arithmetic of the program
RECURSIVE ExactLostSum(_, _)
ExactLostSum(rows, j) ==
  IF j = 0 THEN 0 ELSE ExactLostSum(rows, j - 1) + Exact(rows[j].lostRevenue)

RECURSIVE FloatLostSum(_, _)
FloatLostSum(rows, j) ==
  IF j = 0 THEN Zero ELSE FAdd(FloatLostSum(rows, j - 1), rows[j].lostRevenue)

\* the sum of the amounts of the declines of a code: exact, and accumulated
\* in input order in the arithmetic of the program
RECURSIVE ExactSumOfCode(_, _)
ExactSumOfCode(T, code) ==
  IF Len(T) = 0 THEN 0
  ELSE ExactSumOfCode(Front(T), code)
         + (IF Last(T).status = "declined" /\ Last(T).decline_code = code
            THEN Exact(Last(T).amount) ELSE 0)

RECURSIVE FloatSumOfCode(_, _)
FloatSumOfCode(T, code) ==
  IF Len(T) = 0 THEN Zero
  ELSE IF Last(T).status = "declined" /\ Last(T).decline_code = code
       THEN FAdd(FloatSumOfCode(Front(T), code), Last(T).amount)
       ELSE FloatSumOfCode(Front(T), code)

\* x * k = y in exact arithmetic, for numbers x and y and an integer k
ExactProductIs(x, k, y) ==
  LET e == MinExp(x, y) IN x.m * Pow2(x.e - e) * k = y.m * Pow2(y.e - e)

\* |x * k - y| <= n * 2^-Precision * y, for numbers x and y and an integer k
ProductWithinRounding(x, k, y, n) ==
  LET e    == MinExp(x, y)
      xk   == x.m * Pow2(x.e - e) * k
      ys   == y.m * Pow2(y.e - e)
      diff == IF xk >= ys THEN xk - ys ELSE ys - xk
  IN diff * Pow2(Precision) <= n * ys

\* C28 as stated: when every declined transaction of T carries a decline
\* code, the count fields of getDeclineImpact(T) sum to the number of
\* declined transactions, the lostRevenue fields sum to getLostRevenue(T)
\* (summed exactly, or down the list in the arithmetic of the program),
\* every count is at least 1 and averageAmount * count = lostRevenue (in
\* the arithmetic of the program, or exactly).
C28_RowsPartitionDeclinesExact ==
  (Impact /\ AllDeclinesCoded(txs)) =>
    /\ CountSum(ret, Len(ret)) = CountWhere(txs, "declined")
    /\ \/ ExactLostSum(ret, Len(ret)) = Exact(getLostRevenue(txs))
       \/ FloatLostSum(ret, Len(ret)) = getLostRevenue(txs)
    /\ \A j \in 1..Len(ret) :
         /\ ret[j].count >= 1
         /\ \/ FMul(ret[j].averageAmount, Num(ret[j].count)) = ret[j].lostRevenue
            \/ ExactProductIs(ret[j].averageAmount, ret[j].count, ret[j].lostRevenue)

\* C28, amended: when every declined transaction of T carries a decline
\* code, the count fields sum to the number of declined transactions and
\* every count is at least 1; a row's lostRevenue is the sum of the amounts of
\* the declines of its code accumulated in input order in the arithmetic of
\* the program, and its averageAmount is that lostRevenue divided by count;
\* the lostRevenue fields sum to the declined amounts, and so agree with
\* getLostRevenue(T), exactly when the exact sum has at most Precision
\* significant bits and otherwise within the rounding of the additions, and
\* averageAmount * count is lostRevenue within the rounding of one division
\* and one multiplication.
C28_RowsPartitionDeclines ==
  (Impact /\ AllDeclinesCoded(txs)) =>
    /\ CountSum(ret, Len(ret)) = CountWhere(txs, "declined")
    /\ \A j \in 1..Len(ret) :
         /\ ret[j].count >= 1
         /\ ret[j].count = Cardinality(DeclinedWith(txs, ret[j].code))
         /\ ret[j].lostRevenue = FloatSumOfCode(txs, ret[j].code)
         /\ WithinRounding(ret[j].lostRevenue, ExactSumOfCode(txs, ret[j].code),
                           ret[j].count)
         /\ ret[j].averageAmount = FDiv(ret[j].lostRevenue, Num(ret[j].count))
         /\ ProductWithinRounding(ret[j].averageAmount, ret[j].count,
                                  ret[j].lostRevenue, 2)
         /\ ProductWithinRounding(FMul(ret[j].averageAmount, Num(ret[j].count)), 1,
                                  ret[j].lostRevenue, 2)
    /\ ExactSum(txs, {"declined"}) < Pow2(Precision) =>
         /\ ExactLostSum(ret, Len(ret)) = Exact(getLostRevenue(txs))
         /\ FloatLostSum(ret, Len(ret)) = getLostRevenue(txs)
    /\ WithinRounding(FloatLostSum(ret, Len(ret)), ExactSum(txs, {"declined"}),
                      2 * Len(txs))
    /\ WithinRounding(getLostRevenue(txs), ExactSum(txs, {"declined"}), Len(txs))

\* two rows whose lostRevenue fields do not add up to getLostRevenue(T)
C28_Witness ==
  /\ Impact
  /\ AllDeclinesCoded(txs)
  /\ Len(ret) = 2
  /\ ret[1].count = 2
  /\ FloatLostSum(ret, Len(ret)) # getLostRevenue(txs)
  /\ ExactLostSum(ret, Len(ret)) # Exact(getLostRevenue(txs))

\* the sum of a count field of the first j data points
RECURSIVE PointSum(_, _, _)
PointSum(points, field, j) ==
  IF j = 0 THEN 0 ELSE PointSum(points, field, j - 1) + points[j][field]

\* C29: the total fields of groupByTime(T, granularity) sum to the length of
\* T; every data point has total >= 1 and approved + declined = total, the
\* approved and the declined fields summing to the approved and the declined
\* transactions of T; the result is empty exactly when T is empty.
C29_DataPointsPartitionInput ==
  Timed =>
    /\ PointSum(ret, "total", Len(ret)) = Len(txs)
    /\ PointSum(ret, "approved", Len(ret)) = CountWhere(txs, "approved")
    /\ PointSum(ret, "declined", Len(ret)) = CountWhere(txs, "declined")
    /\ \A j \in 1..Len(ret) :
         /\ ret[j].total >= 1
         /\ ret[j].approved + ret[j].declined = ret[j].total
    /\ Len(ret) = 0 <=> Len(txs) = 0

\* three transactions in two data points, the first with an approved and a
\* declined one, the second with a declined one only
C29_Witness ==
  /\ Timed
  /\ Len(txs) = 3
  /\ Len(ret) = 2
  /\ ret[1].approved = 1
  /\ ret[1].declined = 1
  /\ ret[2].approved = 0
  /\ ret[2].total = 1

\* the empty list is grouped into no data point
C29_WitnessEmpty == Timed /\ Len(txs) = 0 /\ ret = <<>>

\* every approved transaction of T has a null decline code
ApprovedHaveNoCode(T) ==
  \A i \in 1..Len(T) : T[i].status = "approved" => T[i].decline_code = NULL

\* C30: for a list T whose approved transactions have a null decline code,
\* every group of groupByDimension(T, 'decline_code') has approved = 0,
\* declined = total, authorizationRate = 0 and totalAmount = 0, and the
\* groups count the declined transactions that carry a code and no approved
\* transaction.
C30_DeclineCodeGroupsHoldNoApproved ==
  (Grouped /\ arg = "decline_code" /\ ApprovedHaveNoCode(txs)) =>
    /\ \A j \in 1..Len(ret) :
         /\ ret[j].approved = 0
         /\ ret[j].declined = ret[j].total
         /\ ret[j].authorizationRate = Zero
         /\ ret[j].totalAmount = Zero
         /\ \A i \in PositionsWith(txs, "decline_code", ret[j].dimension) :
              txs[i].status = "declined"
    /\ SumOfTotals(ret) =
         Cardinality({i \in 1..Len(txs) :
                        txs[i].status = "declined" /\ txs[i].decline_code # NULL})

\* approved transactions stand before and after a declined one, whose code
\* makes the only group
C30_Witness ==
  /\ Grouped
  /\ arg = "decline_code"
  /\ ApprovedHaveNoCode(txs)
  /\ Len(txs) = 3
  /\ txs[1].status = "approved"
  /\ txs[2].status = "declined"
  /\ txs[3].status = "approved"
  /\ Len(ret) = 1
  /\ ret[1].total = 1
  /\ ret[1].authorizationRate = Zero

====
